---- MODULE Spec2Model ----
(***************************************************************************)
(* Asynchronous task orchestration of the speaker-diarization service:     *)
(* the Redis task registry (TaskManager), the admission check, the Celery  *)
(* executor process_audio_task with its failure handler, and the upload    *)
(* front door.  Every Redis command is one atomic step; the executor is a  *)
(* sequence of such steps, so executors of different workers interleave    *)
(* between any two commands.                                               *)
(*                                                                         *)
(* Abstractions: datetime.now().isoformat() is the token Now (only the     *)
(* presence of a timestamp field is modelled); Redis stores every hash     *)
(* value as its decimal string, progress is kept as the number it denotes; *)
(* the key scan of get_active_task_count reads one snapshot.               *)
(***************************************************************************)
EXTENDS Integers, FiniteSets, Sequences, TLC

\* ---------------------------------------------------------------- bounds
\* Number of messages the broker delivers in a run: every .delay() call and
\* every redelivery of an unacknowledged message counts as one.
MaxDeliveries == 3
\* Number of Celery worker processes (main.py worker --concurrency).
NumWorkers == 2
\* max_concurrent_tasks is configured per deployment: 1..MaxLimit.
MaxLimit == 2
\* Number of uploads in a run of the service with its operator commands and
\* read endpoints (SpecApi).
MaxApiTasks == 2
\* Longest list of segment files of one speaker handed to create_result_zip.
MaxSegments == 2
\* Largest configured task_timeout_minutes tried beside the default.
MaxTimeoutMinutes == 60

\* Task identifiers (uuid4 values), in the order they are issued.
TaskIds == 1..MaxDeliveries
Workers == 1..NumWorkers

\* Celery gives every .delay() call a request id of its own (a fresh uuid4),
\* distinct from the application's task_id argument.
CeleryId(t) == MaxDeliveries + t
CeleryIds == {CeleryId(t) : t \in TaskIds}
\* Keys "task:<k>" of the registry.
Keys == TaskIds \cup CeleryIds

VARIABLES
    max_concurrent_tasks, \* settings.max_concurrent_tasks
    registry,             \* Redis hashes: key task:<k> -> field map (<<>> = no key)
    metadata_store,       \* Redis strings: key task_metadata:<t> (<<>> = no key)
    archive,              \* tasks whose results_<t>.zip exists on disk
    queue,                \* broker: number of waiting messages per task id
    callback_url,         \* per message: whether a callback_url argument was given
    next_id,              \* number of task ids issued so far
    redelivered,          \* per task id: number of redeliveries of its message
    callbacks,            \* per task: callback POSTs attempted, and how many failed
    pc,                   \* per worker: position in process_audio_task
    task,                 \* per worker: the task_id argument
    cp,                   \* per worker: progress checkpoints passed in process_audio
    response,             \* the last HTTP response of the endpoints
    uploads,              \* tasks whose upload directory (with the audio file) exists
    expired,              \* processed directories last modified before the retention cutoff
    clear,                \* the operator's clear-tasks command: its options and selection
    packaging,            \* a call of create_result_zip on its own: arguments, disk, archive
    conf                  \* settings.task_timeout_minutes and the Celery time limits

vars == <<max_concurrent_tasks, registry, metadata_store, archive, queue,
          callback_url, next_id, redelivered, callbacks, pc, task, cp, response,
          uploads, expired, clear, packaging, conf>>

\* State of the parts of the program that run beside the task pipeline.
aside == <<expired, clear, packaging, conf>>
pipeline == <<max_concurrent_tasks, registry, metadata_store, archive, queue,
              callback_url, next_id, redelivered, callbacks, pc, task, cp, response,
              uploads, expired>>

Now == "ts"
\* GET task_metadata:<id>: <<>> when the key is absent, <<v>> when it holds v.
NoMeta == <<>>

\* ------------------------------------------------------- Redis primitives
\* HSET key mapping: merges the given fields into the hash (creating it).
Hset(h, upd) ==
    [f \in (DOMAIN h) \cup (DOMAIN upd) |-> IF f \in DOMAIN upd THEN upd[f] ELSE h[f]]

\* HGET key "status" (None when the field or the key is absent).
StatusOf(h) == IF "status" \in DOMAIN h THEN h["status"] ELSE "none"


\* ------------------------------------------------------------ TaskManager
\* Optional arguments: <<>> is None, <<v>> is the value v; "" is an absent
\* (falsy) message or error code.
Defaults(task_id) ==
    [task_id |-> task_id, status |-> "pending", created_at |-> Now,
     updated_at |-> Now, progress |-> 0, message |-> "Task created"]

create_task(reg, task_id, initial_data) ==
    [reg EXCEPT ![task_id] = Hset(@, Hset(Defaults(task_id), initial_data))]

task_exists(reg, task_id) == DOMAIN reg[task_id] # {}

update_task_status(reg, task_id, status, progress, message) ==
    LET base == [status |-> status, updated_at |-> Now]
        withProgress == IF progress # <<>>
                        THEN Hset(base, [progress |-> progress[1]]) ELSE base
        update_data == IF message # ""
                       THEN Hset(withProgress, [message |-> message]) ELSE withProgress
    IN [reg EXCEPT ![task_id] = Hset(@, update_data)]

\* Faulty variant, for sensitivity of the properties: reporting progress also
\* marks the task as processing.
progress_writes_status(reg, task_id, progress, message) ==
    [reg EXCEPT ![task_id] =
        Hset(@, [status |-> "processing", progress |-> progress, updated_at |-> Now])]

set_task_progress(reg, task_id, progress, message) ==
    LET base == [progress |-> progress, updated_at |-> Now]
        update_data == IF message # "" THEN Hset(base, [message |-> message]) ELSE base
    IN [reg EXCEPT ![task_id] = Hset(@, update_data)]

set_task_error(reg, task_id, error, error_code) ==
    LET base == [status |-> "failed", error |-> error, updated_at |-> Now]
        update_data == IF error_code # ""
                       THEN Hset(base, [error_code |-> error_code]) ELSE base
    IN [reg EXCEPT ![task_id] = Hset(@, update_data)]

\* The HSET half of set_task_completed; the SET of the metadata key is a
\* second Redis command (StoreMetadata below).
set_task_completed(reg, task_id) ==
    [reg EXCEPT ![task_id] =
        Hset(@, [status |-> "completed", progress |-> 100,
                 message |-> "Task completed successfully",
                 completed_at |-> Now, updated_at |-> Now])]

ActiveStatuses == {"pending", "processing"}

\* scan_iter(match="task:*"): the keys that exist.
scan_iter(reg) == {k \in Keys : DOMAIN reg[k] # {}}

\* Faulty variant, for sensitivity of the properties: the loop counts every scanned key, whatever its status.
CountEveryKey(reg, keys) == Cardinality(keys)

\* The loop of get_active_task_count over the scanned keys: count += 1 for
\* each key whose status field is present and is an active status.
RECURSIVE CountActive(_, _)
CountActive(reg, keys) ==
    IF keys = {} THEN 0
    ELSE LET key == CHOOSE k \in keys : TRUE
             status == StatusOf(reg[key])
         IN (IF status # "none" /\ status \in ActiveStatuses THEN 1 ELSE 0)
            + CountActive(reg, keys \ {key})

get_active_task_count(reg) == CountActive(reg, scan_iter(reg))

\* Faulty variant, for sensitivity of the properties: the comparison admits one task too many.
can_start_at_limit(reg) == get_active_task_count(reg) <= max_concurrent_tasks

can_start_new_task(reg) == get_active_task_count(reg) < max_concurrent_tasks

\* Faulty variant, for sensitivity of the properties: only the record is deleted.
delete_record_only(db, task_id) ==
    [db EXCEPT !.registry[task_id] = <<>>]

\* delete_task on the two keyspaces db = [registry, metadata_store]: DEL
\* task:<id>, then DEL task_metadata:<id>; DEL of an absent key does nothing.
delete_task(db, task_id) ==
    [registry |-> [db.registry EXCEPT ![task_id] = <<>>],
     metadata_store |-> [t \in DOMAIN db.metadata_store |->
                           IF t = task_id THEN NoMeta ELSE db.metadata_store[t]]]

\* --------------------------------------------------------- AudioProcessor
\* Faulty variant, for sensitivity of the properties: the "Finalizing results" checkpoint reports less than the one before it.
CheckpointsOutOfOrder ==
    << [progress |-> 30, message |-> "Analyzing audio..."],
       [progress |-> 50, message |-> "Running speaker diarization..."],
       [progress |-> 70, message |-> "Processing speaker segments..."],
       [progress |-> 58, message |-> "Finalizing results..."] >>

\* progress_callback checkpoints of process_audio, in program order.
Checkpoints ==
    << [progress |-> 30, message |-> "Analyzing audio..."],
       [progress |-> 50, message |-> "Running speaker diarization..."],
       [progress |-> 70, message |-> "Processing speaker segments..."],
       [progress |-> 85, message |-> "Finalizing results..."] >>

\* Checkpoints after which the collaborator is let to raise (2: the pipeline call).
FailurePoints == {2}

\* The metadata document process_audio returns for a task.
Metadata(task_id) == [task_id |-> task_id]

\* --------------------------------------------------------- read endpoints
\* The response of a handler, reduced to the status code and the parts of the
\* body the properties inspect.
HTTPException(status_code, detail) ==
    [code |-> status_code, detail |-> detail, content |-> "none", download_url |-> <<>>]

\* A 200 response carrying content (the record, the archive or the metadata).
Ok(content, download_url) ==
    [code |-> 200, detail |-> "", content |-> content, download_url |-> download_url]

\* An exception the handler does not catch: FastAPI answers 500.
InternalServerError == HTTPException(500, "Internal Server Error")

\* No request has been answered yet.
NoResponse == [endpoint |-> "none", task_id |-> 0, result |-> HTTPException(0, "")]

\* GET /diarize/status/{task_id}.  status_data["status"] raises KeyError on a
\* hash without that field, and TaskStatus(**status_data) raises a validation
\* error on a hash without task_id.  download_url is <<>> when not included.
get_task_status_route(reg, task_id) ==
    IF ~task_exists(reg, task_id) THEN HTTPException(404, "Task not found")
    ELSE LET status_data == reg[task_id] IN
         IF "status" \notin DOMAIN status_data THEN InternalServerError
         ELSE IF "task_id" \notin DOMAIN status_data THEN InternalServerError
         ELSE Ok("record", IF status_data["status"] = "completed"
                           THEN <<"download">> ELSE <<>>)

\* Faulty variant, for sensitivity of the properties: the archive is served
\* whenever the file exists, whatever the status.
download_unchecked(reg, arch, task_id) ==
    IF ~task_exists(reg, task_id) THEN HTTPException(404, "Task not found")
    ELSE IF task_id \notin arch THEN HTTPException(404, "Results not found")
    ELSE Ok("archive", <<>>)

\* GET /diarize/download/{task_id}; arch is the set of tasks whose processed
\* directory holds results_<id>.zip and metadata.json.
download_results(reg, arch, task_id) ==
    IF ~task_exists(reg, task_id) THEN HTTPException(404, "Task not found")
    ELSE LET status == reg[task_id] IN
         IF "status" \notin DOMAIN status THEN InternalServerError
         ELSE IF status["status"] # "completed"
              THEN HTTPException(400, "Task not completed")
         ELSE IF task_id \notin arch THEN HTTPException(404, "Results not found")
         ELSE Ok("archive", <<>>)

\* GET /diarize/metadata/{task_id}
get_metadata(reg, arch, task_id) ==
    IF ~task_exists(reg, task_id) THEN HTTPException(404, "Task not found")
    ELSE LET status == reg[task_id] IN
         IF "status" \notin DOMAIN status THEN InternalServerError
         ELSE IF status["status"] # "completed"
              THEN HTTPException(400, "Task not completed")
         ELSE IF task_id \notin arch THEN HTTPException(404, "Metadata not found")
         ELSE Ok("metadata", <<>>)

\* ------------------------------------------------------------ FileManager
\* The file store as cleanup_task sees it: the tasks that have an upload
\* directory and those that have a processed directory.
\* Faulty variant, for sensitivity of the properties: the upload directory is kept.
cleanup_processed_only(fs, task_id) ==
    [fs EXCEPT !.processed = @ \ {task_id}]

\* cleanup_task: rmtree of the upload directory if it exists, then of the
\* processed directory if it exists.
cleanup_task(fs, task_id) ==
    LET afterUpload == IF task_id \in fs.uploads
                       THEN [fs EXCEPT !.uploads = @ \ {task_id}] ELSE fs
    IN IF task_id \in afterUpload.processed
       THEN [afterUpload EXCEPT !.processed = @ \ {task_id}] ELSE afterUpload

\* FileManager.cleanup_old_tasks over the directories in old (those last
\* modified before the cutoff).  The module never imports datetime, so the
\* first statement that computes the cutoff, datetime.now(), raises
\* NameError before any directory is looked at.
cleanup_old_tasks(fs, old) ==
    [raised |-> "NameError: name 'datetime' is not defined", fs |-> fs]

\* ---------------------------------------------------- upload validation
\* Settings.max_file_size_mb, the default.
max_file_size_mb == 500

\* Settings.supported_formats_list for the default "wav,mp3,flac,m4a,ogg";
\* a string is the sequence of its characters.
supported_formats_list ==
    { <<"w", "a", "v">>, <<"m", "p", "3">>, <<"f", "l", "a", "c">>,
      <<"m", "4", "a">>, <<"o", "g", "g">> }

\* str.lower() on one character (the upper-case letters that occur).
LowerChar(c) ==
    CASE c = "W" -> "w" [] c = "A" -> "a" [] c = "V" -> "v"
      [] c = "T" -> "t" [] c = "X" -> "x" [] OTHER -> c

lower(str) == [i \in 1..Len(str) |-> LowerChar(str[i])]

\* str.lstrip('.')
RECURSIVE lstrip_dot(_)
lstrip_dot(str) ==
    IF str # <<>> /\ Head(str) = "." THEN lstrip_dot(Tail(str)) ELSE str

\* Path(filename).suffix: from the last dot on, unless that dot is the first
\* or the last character of the name.
suffix(filename) ==
    LET dots == {i \in 1..Len(filename) : filename[i] = "."} IN
    IF dots = {} THEN <<>>
    ELSE LET last == CHOOSE i \in dots : \A j \in dots : j <= i IN
         IF last = 1 \/ last = Len(filename) THEN <<>>
         ELSE SubSeq(filename, last, Len(filename))

\* Faulty variant, for sensitivity of the properties: the size is not checked.
validate_extension_only(file) ==
    IF file.filename = <<>> THEN HTTPException(400, "No file provided")
    ELSE IF lstrip_dot(lower(suffix(file.filename))) \notin supported_formats_list
         THEN HTTPException(400, "Unsupported format")
    ELSE Ok("accepted", <<>>)

\* routes.py 31-47: the checks of upload_audio on the submitted file, in
\* order; Ok when the handler goes on to create the task.
validate_upload(file) ==
    IF file.filename = <<>> THEN HTTPException(400, "No file provided")
    ELSE LET file_ext == lstrip_dot(lower(suffix(file.filename))) IN
         IF file_ext \notin supported_formats_list
         THEN HTTPException(400, "Unsupported format")
         ELSE IF file.size # 0 /\ file.size > max_file_size_mb * 1024 * 1024
              THEN HTTPException(400, "File too large")
         ELSE Ok("accepted", <<>>)

\* ------------------------------------------------------------ celery_app
\* Settings.task_timeout_minutes, the default.
DefaultTimeoutMinutes == 1000

\* The setting before celery_app.conf.update has run: no limits set yet.
Unconfigured(task_timeout_minutes) ==
    [task_timeout_minutes |-> task_timeout_minutes,
     task_time_limit |-> <<>>, task_soft_time_limit |-> <<>>]

\* celery_app.conf.update(task_time_limit=..., task_soft_time_limit=...),
\* in seconds.
conf_update(task_timeout_minutes) ==
    [task_timeout_minutes |-> task_timeout_minutes,
     task_time_limit |-> <<task_timeout_minutes * 60>>,
     task_soft_time_limit |-> <<(task_timeout_minutes - 5) * 60>>]

\* The clear-tasks command is not running.
NoClear == [phase |-> "idle", cleared |-> {}]

\* clear_tasks: the statuses removed without --include-completed, and the
\* keys the scan selects.
statuses_to_clear == {"pending", "processing"}

select_cleared(reg, include_completed) ==
    {k \in scan_iter(reg) : include_completed \/ StatusOf(reg[k]) \in statuses_to_clear}

\* ------------------------------------------------------------- packaging
\* No call of create_result_zip under study.
NoPackaging == [phase |-> "none"]

\* json.dump(metadata, f) and json.load(f) for a document with the fields
\* task_id and total_segments: the text is the sequence of its tokens.
json_dump(doc) ==
    <<"{", "task_id", ":", doc.task_id, ",", "total_segments", ":",
      doc.total_segments, "}">>

json_load(text) == [task_id |-> text[4], total_segments |-> text[8]]

\* The segment files on disk for a mapping speaker -> list of segment files:
\* the i-th file listed for a speaker is segment_<i>.wav, in the speaker's
\* directory under processed/<task> (dir "processed", where process_audio
\* saves it) or in a directory elsewhere.
FilesOf(speaker_segments) ==
    UNION { { [dir |-> speaker_segments[sp][i].dir, speaker |-> sp, name |-> i,
               bytes |-> speaker_segments[sp][i].bytes]
              : i \in 1..Len(speaker_segments[sp]) }
            : sp \in DOMAIN speaker_segments }

\* Faulty variant, for sensitivity of the properties: the archive gets every
\* file of the task's processed directory, and a metadata.json that counts
\* no segments.
zip_without_metadata(disk, speaker_segments, metadata) ==
    [raised |-> "",
     zip |-> << [metadata_json |-> json_dump([metadata EXCEPT !.total_segments = 0]),
                 segments |-> {[speaker |-> f.speaker, name |-> f.name, bytes |-> f.bytes]
                               : f \in {g \in disk : g.dir = "processed"}}] >>]

\* create_result_zip: metadata.json is written and added to the archive;
\* then, for every speaker and every index i of its list, the file
\* processed/<task>/<speaker>/segment_<i>.wav is added under
\* <speaker>/segment_<i>.wav.  The listed paths themselves are not read:
\* zf.write raises FileNotFoundError when the file at the computed path
\* does not exist.
create_result_zip(disk, speaker_segments, metadata) ==
    LET wanted == UNION { { [speaker |-> sp, name |-> i]
                            : i \in 1..Len(speaker_segments[sp]) }
                          : sp \in DOMAIN speaker_segments }
        found(w) == {f \in disk : f.dir = "processed" /\ f.speaker = w.speaker
                                  /\ f.name = w.name}
    IN IF \E w \in wanted : found(w) = {}
       THEN [raised |-> "FileNotFoundError", zip |-> <<>>]
       ELSE [raised |-> "",
             zip |-> << [metadata_json |-> json_dump(metadata),
                         segments |-> UNION { { [speaker |-> w.speaker, name |-> w.name,
                                                 bytes |-> f.bytes] : f \in found(w) }
                                              : w \in wanted }] >>]

\* ZipFile.extractall of an archive: the files it yields.
extractall(zip) ==
    [metadata |-> json_load(zip.metadata_json), segments |-> zip.segments]

\* ------------------------------------------------------------------- Init
\* The task pipeline after start-up: empty registry, store and queue, idle workers.
InitPipeline ==
    /\ max_concurrent_tasks \in 1..MaxLimit
    /\ registry = [k \in Keys |-> <<>>]
    /\ metadata_store = [t \in TaskIds |-> NoMeta]
    /\ archive = {}
    /\ queue = [t \in TaskIds |-> 0]
    /\ callback_url = [t \in TaskIds |-> FALSE]
    /\ next_id = 0
    /\ redelivered = [t \in TaskIds |-> 0]
    /\ callbacks = [t \in TaskIds |-> [attempted |-> 0, failed |-> 0]]
    /\ pc = [w \in Workers |-> "idle"]
    /\ task = [w \in Workers |-> 0]
    /\ cp = [w \in Workers |-> 0]
    /\ response = NoResponse
    /\ uploads = {}
    /\ expired = {}

Init ==
    /\ InitPipeline
    /\ clear = NoClear
    /\ packaging = NoPackaging
    /\ conf = conf_update(DefaultTimeoutMinutes)

\* Messages delivered so far: one per id issued plus the redeliveries.
RECURSIVE Sum(_, _)
Sum(f, S) == IF S = {} THEN 0
             ELSE LET x == CHOOSE y \in S : TRUE IN f[x] + Sum(f, S \ {x})

Deliveries == next_id + Sum(redelivered, TaskIds)

\* ------------------------------------------------------------ front door
\* POST /diarize/upload with a valid file: a fresh uuid4, a record created
\* with status "queued", and process_audio_task.delay(...).
upload_audio(cb) ==
    /\ Deliveries < MaxDeliveries
    /\ LET task_id == next_id + 1 IN
        /\ next_id' = task_id
        /\ registry' = create_task(registry, task_id,
                          [status |-> "queued",
                           message |-> "File uploaded. Awaiting processing.",
                           progress |-> 0,
                           original_filename |-> "audio.wav",
                           callback_url |-> IF cb THEN "url" ELSE ""])
        /\ queue' = [queue EXCEPT ![task_id] = @ + 1]
        /\ callback_url' = [callback_url EXCEPT ![task_id] = cb]
        /\ uploads' = uploads \cup {task_id}
    /\ UNCHANGED <<max_concurrent_tasks, metadata_store, archive, redelivered,
                   callbacks, pc, task, cp, response, aside>>

\* process_audio_task.delay(task_id, path) sent by a producer other than the
\* upload endpoint (callback_url left at its default None): the message
\* arrives for an id that has no record.
delay ==
    /\ Deliveries < MaxDeliveries
    /\ LET task_id == next_id + 1 IN
        /\ next_id' = task_id
        /\ queue' = [queue EXCEPT ![task_id] = @ + 1]
    /\ UNCHANGED <<callback_url, max_concurrent_tasks, registry, metadata_store, archive,
                   redelivered, callbacks, pc, task, cp, response, uploads, aside>>

\* ----------------------------------------------------------------- broker
Running(t) == {w \in Workers : pc[w] # "idle" /\ task[w] = t}

\* A worker takes a message.  task_acks_late: the message is acknowledged only
\* when the executor returns or fails, and a message still unacknowledged at
\* the broker's visibility timeout is restored to the queue (again = TRUE): it
\* is then delivered once more, during or after the first run.
\* Worker processes are interchangeable: the lowest idle one takes the message.
Dequeue(w, t, again) ==
    /\ pc[w] = "idle"
    /\ \A v \in Workers : v < w => pc[v] # "idle"
    /\ queue[t] > 0
    /\ IF again
       THEN /\ Deliveries < MaxDeliveries
            /\ redelivered' = [redelivered EXCEPT ![t] = @ + 1]
            /\ UNCHANGED queue
       ELSE /\ queue' = [queue EXCEPT ![t] = @ - 1]
            /\ UNCHANGED redelivered
    /\ pc' = [pc EXCEPT ![w] = "exists"]
    /\ task' = [task EXCEPT ![w] = t]
    /\ UNCHANGED <<max_concurrent_tasks, registry, metadata_store, archive,
                   callback_url, next_id, callbacks, cp, response, uploads, aside>>

\* ------------------------------------------------------ process_audio_task
\* What every executor step leaves alone.
Frame ==
    UNCHANGED <<max_concurrent_tasks, queue, callback_url, next_id, redelivered, response,
                uploads, aside>>

Goto(w, label) == pc' = [pc EXCEPT ![w] = label]

\* return / raise: the worker is free again.
Finish(w) ==
    /\ pc' = [pc EXCEPT ![w] = "idle"]
    /\ task' = [task EXCEPT ![w] = 0]
    /\ cp' = [cp EXCEPT ![w] = 0]

\* DiarizationTask.on_failure(exc, task_id, args, kwargs, einfo): Celery passes
\* the request id of the failed invocation as task_id; the task then ends.
on_failure(w, exc) ==
    /\ registry' = set_task_error(registry, CeleryId(task[w]), exc, "PROCESSING_FAILED")
    /\ Finish(w)
    /\ UNCHANGED <<metadata_store, archive, callbacks>>
    /\ Frame

\* tasks.py 52: if not task_manager.task_exists(task_id)
TaskExists(w) ==
    /\ pc[w] = "exists"
    /\ Goto(w, IF task_exists(registry, task[w]) THEN "check1" ELSE "create")
    /\ UNCHANGED <<registry, metadata_store, archive, callbacks, task, cp>>
    /\ Frame

\* tasks.py 53: task_manager.create_task(task_id)
CreateDefensive(w) ==
    /\ pc[w] = "create"
    /\ registry' = create_task(registry, task[w], <<>>)
    /\ Goto(w, "check1")
    /\ UNCHANGED <<metadata_store, archive, callbacks, task, cp>>
    /\ Frame

\* tasks.py 56: if not task_manager.can_start_new_task()
Check1(w) ==
    /\ pc[w] = "check1"
    /\ Goto(w, IF can_start_new_task(registry) THEN "check2" ELSE "reject")
    /\ UNCHANGED <<registry, metadata_store, archive, callbacks, task, cp>>
    /\ Frame

\* Faulty variant, for sensitivity of the properties: the rejected executor
\* records QUEUE_FULL and then waits for a slot instead of returning.
RejectThenWait(w) ==
    /\ pc[w] = "reject"
    /\ registry' = set_task_error(registry, task[w],
                      "Too many concurrent tasks. Please try again later.",
                      "QUEUE_FULL")
    /\ Goto(w, "poll")
    /\ UNCHANGED <<metadata_store, archive, callbacks, task, cp>>
    /\ Frame

\* tasks.py 57-62: set_task_error(..., "QUEUE_FULL"); return
Reject(w) ==
    /\ pc[w] = "reject"
    /\ registry' = set_task_error(registry, task[w],
                      "Too many concurrent tasks. Please try again later.",
                      "QUEUE_FULL")
    /\ Finish(w)
    /\ UNCHANGED <<metadata_store, archive, callbacks>>
    /\ Frame

\* tasks.py 65: if not task_manager.can_start_new_task()
Check2(w) ==
    /\ pc[w] = "check2"
    /\ Goto(w, IF can_start_new_task(registry) THEN "start" ELSE "set_queued")
    /\ UNCHANGED <<registry, metadata_store, archive, callbacks, task, cp>>
    /\ Frame

\* tasks.py 66-70: update_task_status(task_id, "queued", message=...)
SetQueued(w) ==
    /\ pc[w] = "set_queued"
    /\ registry' = update_task_status(registry, task[w], "queued", <<>>,
                      "Task queued. Waiting for available slot.")
    /\ Goto(w, "poll")
    /\ UNCHANGED <<metadata_store, archive, callbacks, task, cp>>
    /\ Frame

\* tasks.py 73-74: while not can_start_new_task(): time.sleep(5)
Poll(w) ==
    /\ pc[w] = "poll"
    /\ Goto(w, IF can_start_new_task(registry) THEN "start" ELSE "poll")
    /\ UNCHANGED <<registry, metadata_store, archive, callbacks, task, cp>>
    /\ Frame

\* tasks.py 77: update_task_status(task_id, "processing", progress=10, ...)
Start(w) ==
    /\ pc[w] = "start"
    /\ registry' = update_task_status(registry, task[w], "processing", <<10>>,
                      "Starting audio processing...")
    /\ Goto(w, "loading")
    /\ UNCHANGED <<metadata_store, archive, callbacks, task, cp>>
    /\ Frame

\* tasks.py 83: set_task_progress(task_id, 20, "Loading audio file...")
Loading(w) ==
    /\ pc[w] = "loading"
    /\ registry' = set_task_progress(registry, task[w], 20, "Loading audio file...")
    /\ Goto(w, "analysis")
    /\ UNCHANGED <<metadata_store, archive, callbacks, task, cp>>
    /\ Frame

\* tasks.py 89-93 / audio_processor.py 53-165: the next progress_callback of
\* process_audio; after the last one process_audio returns.
AnalysisCallback(w) ==
    /\ pc[w] = "analysis"
    /\ LET c == Checkpoints[cp[w] + 1] IN
        registry' = set_task_progress(registry, task[w], c.progress, c.message)
    /\ IF cp[w] + 1 = Len(Checkpoints)
       THEN Goto(w, "packaging") /\ cp' = [cp EXCEPT ![w] = 0]
       ELSE UNCHANGED pc /\ cp' = [cp EXCEPT ![w] = @ + 1]
    /\ UNCHANGED <<metadata_store, archive, callbacks, task>>
    /\ Frame

\* The collaborator raises (the pipeline call after the checkpoint numbered in
\* FailurePoints); tasks.py 122-124 re-raises and Celery runs on_failure.
AnalysisRaise(w) ==
    /\ pc[w] = "analysis"
    /\ cp[w] \in FailurePoints
    /\ on_failure(w, "analysis error")

\* Faulty variant, for sensitivity of the properties: the task is marked
\* completed before its archive is created.
CompletedBeforeArchive(w) ==
    /\ pc[w] = "packaging"
    /\ registry' = set_task_completed(registry, task[w])
    /\ Goto(w, "zip")
    /\ UNCHANGED <<metadata_store, archive, callbacks, task, cp>>
    /\ Frame

\* tasks.py 98: set_task_progress(task_id, 90, "Creating result package...")
Packaging(w) ==
    /\ pc[w] = "packaging"
    /\ registry' = set_task_progress(registry, task[w], 90, "Creating result package...")
    /\ Goto(w, "zip")
    /\ UNCHANGED <<metadata_store, archive, callbacks, task, cp>>
    /\ Frame

\* Faulty variant, for sensitivity of the properties: the packaging returns
\* without having written the archive.
ZipNotWritten(w) ==
    /\ pc[w] = "zip"
    /\ Goto(w, "completed")
    /\ UNCHANGED <<registry, metadata_store, archive, callbacks, task, cp>>
    /\ Frame

\* tasks.py 99: file_manager.create_result_zip(...) returns
CreateResultZip(w) ==
    /\ pc[w] = "zip"
    /\ archive' = archive \cup {task[w]}
    /\ Goto(w, "completed")
    /\ UNCHANGED <<registry, metadata_store, callbacks, task, cp>>
    /\ Frame

\* tasks.py 99: file_manager.create_result_zip(...) raises; Celery runs on_failure.
CreateResultZipRaise(w) ==
    /\ pc[w] = "zip"
    /\ on_failure(w, "packaging error")

\* tasks.py 102 / task_manager.py 87-95: the HSET of set_task_completed
SetCompleted(w) ==
    /\ pc[w] = "completed"
    /\ registry' = set_task_completed(registry, task[w])
    /\ Goto(w, "store_metadata")
    /\ UNCHANGED <<metadata_store, archive, callbacks, task, cp>>
    /\ Frame

\* task_manager.py 97-100: SET task_metadata:<id>; then tasks.py 105:
\* without a callback_url the executor returns.
StoreMetadata(w) ==
    /\ pc[w] = "store_metadata"
    /\ metadata_store' = [metadata_store EXCEPT ![task[w]] = <<Metadata(task[w])>>]
    /\ IF callback_url[task[w]]
       THEN Goto(w, "callback") /\ UNCHANGED <<task, cp>>
       ELSE Finish(w)
    /\ UNCHANGED <<registry, archive, callbacks>>
    /\ Frame

\* Faulty variant, for sensitivity of the properties: the exception of the
\* HTTP client is caught and reported as a failure of the task.
PostFailureRecorded(w) ==
    /\ callbacks' = [callbacks EXCEPT ![task[w]] =
                        [attempted |-> @.attempted + 1, failed |-> @.failed + 1]]
    /\ registry' = set_task_error(registry, task[w], "callback error",
                                  "PROCESSING_FAILED")
    /\ Finish(w)
    /\ UNCHANGED <<metadata_store, archive>>
    /\ Frame

\* tasks.py 116-117: except Exception: log.warning(...); the executor goes on
\* to its return statement.
PostFailed(w) ==
    /\ callbacks' = [callbacks EXCEPT ![task[w]] =
                        [attempted |-> @.attempted + 1, failed |-> @.failed + 1]]
    /\ Finish(w)
    /\ UNCHANGED <<registry, metadata_store, archive>>
    /\ Frame

\* tasks.py 105-120: the POST is attempted once; it is delivered (ok) or the
\* HTTP client raises; either way the executor returns.
SendCallback(w, ok) ==
    /\ pc[w] = "callback"
    /\ IF ok
       THEN /\ callbacks' = [callbacks EXCEPT ![task[w]].attempted = @ + 1]
            /\ Finish(w)
            /\ UNCHANGED <<registry, metadata_store, archive>>
            /\ Frame
       ELSE PostFailed(w)

Next ==
    \/ \E cb \in BOOLEAN : upload_audio(cb)
    \/ delay
    \/ \E w \in Workers, t \in TaskIds, again \in BOOLEAN : Dequeue(w, t, again)
    \/ \E w \in Workers : TaskExists(w)
    \/ \E w \in Workers : CreateDefensive(w)
    \/ \E w \in Workers : Check1(w)
    \/ \E w \in Workers : Reject(w)
    \/ \E w \in Workers : Check2(w)
    \/ \E w \in Workers : SetQueued(w)
    \/ \E w \in Workers : Poll(w)
    \/ \E w \in Workers : Start(w)
    \/ \E w \in Workers : Loading(w)
    \/ \E w \in Workers : AnalysisCallback(w)
    \/ \E w \in Workers : AnalysisRaise(w)
    \/ \E w \in Workers : Packaging(w)
    \/ \E w \in Workers : CreateResultZip(w)
    \/ \E w \in Workers : CreateResultZipRaise(w)
    \/ \E w \in Workers : SetCompleted(w)
    \/ \E w \in Workers : StoreMetadata(w)
    \/ \E w \in Workers, ok \in BOOLEAN : SendCallback(w, ok)

Spec == Init /\ [][Next]_vars

\* ------------------------------------------------- executors run serially
\* An executor is between an admission check that let it through (tasks.py
\* 56, 65) and its write of status processing (tasks.py 77).
Admitting(w) == pc[w] \in {"check2", "start"}

\* No other executor is in that window: w may take a step.
Serial(w) == \A v \in Workers \ {w} : ~Admitting(v)

\* The steps of Next, an executor stepping only while no other executor is
\* between its admission check and its write of processing.  The second
\* check then sees what the first saw, so the wait for a slot (tasks.py
\* 66-74) is never entered.
NextSerial ==
    \/ \E cb \in BOOLEAN : upload_audio(cb)
    \/ delay
    \/ \E w \in Workers, t \in TaskIds, again \in BOOLEAN : Serial(w) /\ Dequeue(w, t, again)
    \/ \E w \in Workers : Serial(w) /\ TaskExists(w)
    \/ \E w \in Workers : Serial(w) /\ CreateDefensive(w)
    \/ \E w \in Workers : Serial(w) /\ Check1(w)
    \/ \E w \in Workers : Serial(w) /\ Reject(w)
    \/ \E w \in Workers : Serial(w) /\ Check2(w)
    \/ \E w \in Workers : Serial(w) /\ Start(w)
    \/ \E w \in Workers : Serial(w) /\ Loading(w)
    \/ \E w \in Workers : Serial(w) /\ AnalysisCallback(w)
    \/ \E w \in Workers : Serial(w) /\ AnalysisRaise(w)
    \/ \E w \in Workers : Serial(w) /\ Packaging(w)
    \/ \E w \in Workers : Serial(w) /\ CreateResultZip(w)
    \/ \E w \in Workers : Serial(w) /\ CreateResultZipRaise(w)
    \/ \E w \in Workers : Serial(w) /\ SetCompleted(w)
    \/ \E w \in Workers : Serial(w) /\ StoreMetadata(w)
    \/ \E w \in Workers, ok \in BOOLEAN : Serial(w) /\ SendCallback(w, ok)

SpecSerial == Init /\ [][NextSerial]_vars

\* ------------------------------------------- operator and read endpoints
\* main.py 137-138: the operator's clear-tasks command calls delete_task for
\* a key it selected; the two DEL commands are issued back to back.
DeleteTask(k) ==
    /\ LET db == delete_task([registry |-> registry,
                              metadata_store |-> metadata_store], k) IN
        /\ registry' = db.registry
        /\ metadata_store' = db.metadata_store
    /\ UNCHANGED <<max_concurrent_tasks, archive, queue, callback_url, next_id,
                   redelivered, callbacks, pc, task, cp, response, uploads, aside>>

\* FileManager.cleanup_task(t) called for a task: its upload directory and
\* its processed directory (archive and metadata.json) are removed.
CleanupTask(t) ==
    /\ LET fs == cleanup_task([uploads |-> uploads, processed |-> archive], t) IN
        /\ uploads' = fs.uploads
        /\ archive' = fs.processed
    /\ expired' = expired \ {t}
    /\ UNCHANGED <<max_concurrent_tasks, registry, metadata_store, queue,
                   callback_url, next_id, redelivered, callbacks, pc, task, cp,
                   response, clear, packaging, conf>>

\* A read endpoint answers a request; the handler runs between two steps of
\* the executors.
Respond(endpoint, k, result) ==
    /\ response' = [endpoint |-> endpoint, task_id |-> k, result |-> result]
    /\ UNCHANGED <<max_concurrent_tasks, registry, metadata_store, archive, queue,
                   callback_url, next_id, redelivered, callbacks, pc, task, cp,
                   uploads, aside>>

GetTaskStatus(k) == Respond("status", k, get_task_status_route(registry, k))
DownloadResults(k) == Respond("download", k, download_results(registry, archive, k))
GetMetadata(k) == Respond("metadata", k, get_metadata(registry, archive, k))

\* Identifiers a client asks about: the ids issued so far and one unknown id.
ClientIds == 1..(next_id + 1)

\* The service with one worker process (worker --concurrency 1) and
\* max_concurrent_tasks = 1, uploads without callback_url and every message
\* delivered once, together with the operator's commands and the read
\* endpoints.  With one executor at a time the second admission check never
\* differs from the first, so the wait-for-slot steps do not occur.
InitApi == Init /\ max_concurrent_tasks = 1

NextApi ==
    \/ next_id < MaxApiTasks /\ upload_audio(FALSE)
    \/ \E t \in TaskIds : Dequeue(1, t, FALSE)
    \/ TaskExists(1)
    \/ CreateDefensive(1)
    \/ Check1(1)
    \/ Reject(1)
    \/ Check2(1)
    \/ Start(1)
    \/ Loading(1)
    \/ AnalysisCallback(1)
    \/ AnalysisRaise(1)
    \/ Packaging(1)
    \/ CreateResultZip(1)
    \/ CreateResultZipRaise(1)
    \/ SetCompleted(1)
    \/ StoreMetadata(1)
    \/ \E k \in Keys : DeleteTask(k)
    \/ \E t \in TaskIds : CleanupTask(t)
    \/ \E k \in ClientIds : GetTaskStatus(k)
    \/ \E k \in ClientIds : DownloadResults(k)
    \/ \E k \in ClientIds : GetMetadata(k)

SpecApi == InitApi /\ [][NextApi]_vars

\* ------------------------------------------- submission and file lifecycle
\* Submitted file names (character sequences) and sizes in bytes.
Filenames ==
    { <<>>,
      <<"a", ".", "w", "a", "v">>,
      <<"a", ".", "W", "A", "V">>,
      <<"a", ".", "t", "x", "t">>,
      <<"w", "a", "v">>,
      <<".", "w", "a", "v">> }

Sizes == {0, max_file_size_mb * 1024 * 1024, max_file_size_mb * 1024 * 1024 + 1}

UploadFiles == [filename : Filenames, size : Sizes]

\* POST /diarize/upload with any file: rejected by a check (nothing after the
\* raise runs), or accepted and handled by upload_audio.
Upload(file) ==
    LET checked == validate_upload(file) IN
    IF checked.code = 200
    THEN next_id < MaxApiTasks /\ upload_audio(FALSE)
    ELSE /\ response' = [endpoint |-> "upload", task_id |-> 0, file |-> file,
                         result |-> checked]
         /\ UNCHANGED <<max_concurrent_tasks, registry, metadata_store, archive,
                        queue, callback_url, next_id, redelivered, callbacks, pc,
                        task, cp, uploads, aside>>

\* Time passes: the processed directory of t was last modified before the
\* retention cutoff (result_retention_days ago).
Expire(t) ==
    /\ t \in archive \ expired
    /\ expired' = expired \cup {t}
    /\ UNCHANGED <<max_concurrent_tasks, registry, metadata_store, archive, queue,
                   callback_url, next_id, redelivered, callbacks, pc, task, cp,
                   response, uploads, clear, packaging, conf>>

\* The Celery task cleanup_old_tasks (tasks.py 127-132) runs the sweep; what
\* it raises is the outcome of the task.
Sweep ==
    /\ LET out == cleanup_old_tasks([uploads |-> uploads, processed |-> archive],
                                    expired) IN
        /\ uploads' = out.fs.uploads
        /\ archive' = out.fs.processed
        /\ expired' = expired \cap out.fs.processed
        /\ response' = [endpoint |-> "cleanup_old_tasks", task_id |-> 0,
                        result |-> IF out.raised = "" THEN Ok("swept", <<>>)
                                   ELSE HTTPException(500, out.raised)]
    /\ UNCHANGED <<max_concurrent_tasks, registry, metadata_store, queue,
                   callback_url, next_id, redelivered, callbacks, pc, task, cp,
                   clear, packaging, conf>>

\* The service with one worker process and max_concurrent_tasks = 1, every
\* message delivered once, with submissions of any file, the passing of time
\* and the two cleanup operations.
NextFiles ==
    \/ \E file \in UploadFiles : Upload(file)
    \/ \E t \in TaskIds : Dequeue(1, t, FALSE)
    \/ TaskExists(1)
    \/ Check1(1)
    \/ Reject(1)
    \/ Check2(1)
    \/ Start(1)
    \/ Loading(1)
    \/ AnalysisCallback(1)
    \/ AnalysisRaise(1)
    \/ Packaging(1)
    \/ CreateResultZip(1)
    \/ CreateResultZipRaise(1)
    \/ SetCompleted(1)
    \/ StoreMetadata(1)
    \/ \E t \in TaskIds : CleanupTask(t)
    \/ \E t \in TaskIds : Expire(t)
    \/ Sweep

SpecFiles == InitApi /\ [][NextFiles]_vars

\* ------------------------------------------- clear_tasks beside a worker
\* clear_tasks, up to the prompt: the keys task:* are scanned, and a key is
\* selected when --include-completed is given or its status is pending or
\* processing.  The command returns when nothing is selected or in a dry
\* run; otherwise it prompts.
ClearScan(include_completed, dry_run) ==
    /\ clear.phase = "idle"
    /\ LET cleared == select_cleared(registry, include_completed) IN
        clear' = [phase |-> IF cleared = {} THEN "nothing"
                            ELSE IF dry_run THEN "dry_run" ELSE "confirm",
                  cleared |-> cleared,
                  include_completed |-> include_completed]
    /\ UNCHANGED <<pipeline, packaging, conf>>

\* click.confirm(..., default=False): the operator answers.
ClearConfirm(yes) ==
    /\ clear.phase = "confirm"
    /\ clear' = [clear EXCEPT !.phase = IF yes THEN "deleting" ELSE "aborted"]
    /\ UNCHANGED <<pipeline, packaging, conf>>

\* One turn of the loop "for task_id, _ in cleared: delete_task(task_id)".
ClearDelete(k) ==
    /\ clear.phase = "deleting"
    /\ k \in clear.cleared
    /\ LET db == delete_task([registry |-> registry,
                              metadata_store |-> metadata_store], k) IN
        /\ registry' = db.registry
        /\ metadata_store' = db.metadata_store
    /\ clear' = [clear EXCEPT !.cleared = @ \ {k},
                              !.phase = IF clear.cleared = {k} THEN "removed" ELSE @]
    /\ UNCHANGED <<max_concurrent_tasks, archive, queue, callback_url, next_id,
                   redelivered, callbacks, pc, task, cp, response, uploads, expired,
                   packaging, conf>>

NextAdmin ==
    \/ \E cb \in BOOLEAN : next_id < MaxApiTasks /\ upload_audio(cb)
    \/ \E t \in TaskIds : Dequeue(1, t, FALSE)
    \/ TaskExists(1)
    \/ CreateDefensive(1)
    \/ Check1(1)
    \/ Reject(1)
    \/ Check2(1)
    \/ Start(1)
    \/ Loading(1)
    \/ AnalysisCallback(1)
    \/ AnalysisRaise(1)
    \/ Packaging(1)
    \/ CreateResultZip(1)
    \/ CreateResultZipRaise(1)
    \/ SetCompleted(1)
    \/ StoreMetadata(1)
    \/ \E ok \in BOOLEAN : SendCallback(1, ok)
    \/ \E include_completed \in BOOLEAN, dry_run \in BOOLEAN :
          ClearScan(include_completed, dry_run)
    \/ \E yes \in BOOLEAN : ClearConfirm(yes)
    \/ \E k \in Keys : ClearDelete(k)

SpecAdmin == InitApi /\ [][NextAdmin]_vars

\* ------------------------------------------------ worker time limits
\* Settings() reads TASK_TIMEOUT_MINUTES: any positive number of minutes.
TimeoutSettings == 1..MaxTimeoutMinutes \cup {DefaultTimeoutMinutes}

InitLimits ==
    /\ InitPipeline
    /\ max_concurrent_tasks = 1
    /\ clear = NoClear
    /\ packaging = NoPackaging
    /\ \E task_timeout_minutes \in TimeoutSettings :
          conf = Unconfigured(task_timeout_minutes)

\* Import of src.workers.celery_app: celery_app.conf.update(...)
Configure ==
    /\ conf.task_time_limit = <<>>
    /\ conf' = conf_update(conf.task_timeout_minutes)
    /\ UNCHANGED <<pipeline, clear, packaging>>

NextLimits == Configure

SpecLimits == InitLimits /\ [][NextLimits]_vars

\* ------------------------------------------------ create_result_zip alone
Speakers == {"SPEAKER_00", "SPEAKER_01"}
Bytes == {"b1", "b2"}
Docs == [task_id : {1}, total_segments : 0..MaxSegments]

\* Lists of at most MaxSegments segment files.
SegmentLists ==
    UNION { [1..n -> [dir : {"processed", "elsewhere"}, bytes : Bytes]]
            : n \in 0..MaxSegments }

\* The arguments of a call: any mapping of some speakers to segment lists
\* and any metadata document.
Mappings == UNION { [S -> SegmentLists] : S \in SUBSET Speakers }

\* A call of create_result_zip is set up: its arguments, and the listed files on disk.
InitZip ==
    /\ InitPipeline
    /\ max_concurrent_tasks = 1
    /\ clear = NoClear
    /\ conf = conf_update(DefaultTimeoutMinutes)
    /\ \E speaker_segments \in Mappings, metadata \in Docs :
          packaging = [phase |-> "ready", speaker_segments |-> speaker_segments,
                       metadata |-> metadata, disk |-> FilesOf(speaker_segments),
                       raised |-> "", zip |-> <<>>, extracted |-> <<>>]

\* file_manager.create_result_zip(task_id, speaker_segments, metadata)
Package ==
    /\ packaging.phase = "ready"
    /\ LET out == create_result_zip(packaging.disk, packaging.speaker_segments,
                                    packaging.metadata) IN
        packaging' = [packaging EXCEPT !.phase = "packaged",
                                       !.raised = out.raised, !.zip = out.zip]
    /\ UNCHANGED <<pipeline, clear, conf>>

\* The archive is extracted again.
Extract ==
    /\ packaging.phase = "packaged"
    /\ packaging.zip # <<>>
    /\ packaging' = [packaging EXCEPT !.phase = "extracted",
                                      !.extracted = <<extractall(packaging.zip[1])>>]
    /\ UNCHANGED <<pipeline, clear, conf>>

NextZip == Package \/ Extract

SpecZip == InitZip /\ [][NextZip]_vars

\* ================================================================ claims
Terminal == {"completed", "failed"}
Status(k) == StatusOf(registry[k])
\* The record of t was created by the upload endpoint.
Uploaded(t) == "original_filename" \in DOMAIN registry[t]

\* C1: once a record's status is completed or failed, no step changes that
\* record's status to another value.
C1_TerminalAbsorbing ==
    [][\A k \in Keys :
          Status(k) \in Terminal => StatusOf(registry'[k]) = Status(k)]_vars

\* C2: when the analysis or the packaging raises in the executor of an
\* uploaded task T, the record task:T ends with status failed, the exception
\* message as error and error_code PROCESSING_FAILED.
C2_FailureRecordedOnTask ==
    [][\A w \in Workers :
          (pc[w] \in {"analysis", "zip"} /\ pc'[w] = "idle" /\ Uploaded(task[w]))
          => LET rec == registry'[task[w]] IN
             /\ StatusOf(rec) = "failed"
             /\ "error" \in DOMAIN rec
             /\ rec["error"] = (IF pc[w] = "analysis" THEN "analysis error"
                                                     ELSE "packaging error")
             /\ "error_code" \in DOMAIN rec
             /\ rec["error_code"] = "PROCESSING_FAILED"]_vars

\* C3: a task whose executor invocations have all been dequeued and have all
\* returned or raised has a record in a terminal status.
C3_FinishedTasksTerminal ==
    \A t \in 1..next_id :
        (queue[t] = 0 /\ Running(t) = {}) => Status(t) \in Terminal

\* C4: an executor that has found admission denied (at either check) next
\* sets its record's status to queued; it does not write QUEUE_FULL.
C4_DeniedExecutorQueues ==
    [][\A w \in Workers :
          (pc[w] \in {"reject", "set_queued"} /\ pc'[w] # pc[w])
          => LET rec == registry'[task[w]] IN
             /\ StatusOf(rec) = "queued"
             /\ ~("error_code" \in DOMAIN rec /\ rec["error_code"] = "QUEUE_FULL")]_vars

\* C5 as claimed: get_active_task_count() is the number of records whose
\* status is pending, queued or processing.
C5_CountsPendingQueuedProcessing ==
    get_active_task_count(registry)
        = Cardinality({k \in Keys : Status(k) \in {"pending", "queued", "processing"}})

\* C5 as amended: at every snapshot get_active_task_count() is the number of
\* records whose status is pending or processing; queued, completed and
\* failed records, and records without a status field, are not counted.
C5_CountsPendingProcessing ==
    get_active_task_count(registry)
        = Cardinality({k \in Keys : Status(k) \in {"pending", "processing"}})

\* Two active records beside a queued one and a failed one.
C5_Witness ==
    /\ get_active_task_count(registry) = 2
    /\ \E k \in Keys : Status(k) = "queued"
    /\ \E k \in Keys : Status(k) = "failed"
    /\ \E k \in Keys : Status(k) = "processing"

\* The number of records other than t's whose status is in S.
OthersIn(t, S) == Cardinality({k \in Keys \ {t} : Status(k) \in S})

HasQueueFull(rec) ==
    /\ StatusOf(rec) = "failed"
    /\ "error_code" \in DOMAIN rec
    /\ rec["error_code"] = "QUEUE_FULL"

\* C6 as claimed: with max_concurrent_tasks = 2, the executor of a task that
\* checks admission while two other tasks are pending, queued or processing
\* rejects the task.
C6_RejectedWhenTwoActive ==
    [][\A w \in Workers :
          (/\ max_concurrent_tasks = 2
           /\ pc[w] = "check1"
           /\ OthersIn(task[w], {"pending", "queued", "processing"}) >= 2
           /\ pc'[w] # "check1")
          => pc'[w] = "reject"]_vars

\* C6 as amended: with max_concurrent_tasks = 2, the executor of a task that
\* checks admission while two other records are pending or processing rejects
\* the task, and the rejection writes status failed with error_code
\* QUEUE_FULL to the task's record.
C6_RejectedWhenTwoRunning ==
    [][\A w \in Workers :
          /\ (/\ max_concurrent_tasks = 2
              /\ pc[w] = "check1"
              /\ OthersIn(task[w], {"pending", "processing"}) >= 2
              /\ pc'[w] # "check1")
             => pc'[w] = "reject"
          /\ (pc[w] = "reject" /\ pc'[w] # "reject")
             => HasQueueFull(registry'[task[w]])]_vars

\* A third task rejected with QUEUE_FULL while two others are active.
C6_Witness ==
    /\ max_concurrent_tasks = 2
    /\ \E t \in TaskIds :
          /\ HasQueueFull(registry[t])
          /\ OthersIn(t, {"pending", "processing"}) >= 2

\* The executor enters (tasks.py 52) with a record that is already terminal.
EntersTerminal(w) == pc[w] = "exists" /\ Status(task[w]) \in Terminal

\* C7: an executor invoked for a task whose record is already completed or
\* failed returns at entry and changes nothing.
C7_TerminalReentryNoOp ==
    [][\A w \in Workers :
          (EntersTerminal(w) /\ pc'[w] # pc[w])
          => /\ pc'[w] = "idle"
             /\ registry' = registry
             /\ metadata_store' = metadata_store
             /\ archive' = archive
             /\ callbacks' = callbacks]_vars

\* The edges of the status state machine.
Edges ==
    {<<"pending", "queued">>, <<"pending", "processing">>,
     <<"queued", "processing">>, <<"processing", "completed">>,
     <<"pending", "failed">>, <<"queued", "failed">>, <<"processing", "failed">>}

\* C8: the status of a record changes only along the edges of the state machine.
C8_StatusFollowsEdges ==
    [][\A t \in TaskIds :
          (Status(t) # "none" /\ StatusOf(registry'[t]) # Status(t))
          => <<Status(t), StatusOf(registry'[t])>> \in Edges]_vars

Processing == {k \in Keys : Status(k) = "processing"}

\* C9: the gate is checked, not reserved: the number of processing records
\* can exceed max_concurrent_tasks (C9_GateRace is reached), by at most one
\* per other executor in flight.
C9_OvershootBounded ==
    Cardinality(Processing) <= max_concurrent_tasks + NumWorkers - 1

\* Two executors of different tasks have both just written processing, and
\* the ceiling is exceeded.
C9_GateRace ==
    /\ Cardinality(Processing) > max_concurrent_tasks
    /\ \E w1, w2 \in Workers :
          /\ w1 # w2
          /\ task[w1] # task[w2]
          /\ pc[w1] = "loading"
          /\ pc[w2] = "loading"

\* C10: for a task whose message is delivered once, the progress written
\* while the status is processing, through to completed, never decreases.
C10_ProgressNonDecreasing ==
    [][\A t \in TaskIds :
          (/\ redelivered'[t] = 0
           /\ Status(t) = "processing"
           /\ StatusOf(registry'[t]) \in {"processing", "completed"})
          => registry'[t]["progress"] >= registry[t]["progress"]]_vars

\* A task delivered once has run through to completed with progress 100.
C10_Witness ==
    \E t \in TaskIds :
        /\ redelivered[t] = 0
        /\ queue[t] = 0
        /\ Status(t) = "completed"
        /\ registry[t]["progress"] = 100

\* C11: a callback POST that fails is caught inside the executor: the step
\* returns the worker normally and changes no record and no metadata key (no
\* failure is reported under any key); the record of a task delivered once
\* is completed with progress 100 before and after the attempt.
C11_CallbackFailureContained ==
    [][\A w \in Workers :
          (pc[w] = "callback" /\ pc'[w] # "callback")
          => /\ pc'[w] = "idle"
             /\ registry' = registry
             /\ metadata_store' = metadata_store
             /\ redelivered'[task[w]] = 0
                => /\ StatusOf(registry'[task[w]]) = "completed"
                   /\ registry'[task[w]]["progress"] = 100]_vars

\* A callback has failed, its executor has returned, and the task is
\* completed with no failure recorded under the task id or the request id.
C11_Witness ==
    \E t \in TaskIds :
        /\ callbacks[t].failed = 1
        /\ redelivered[t] = 0
        /\ Running(t) = {}
        /\ Status(t) = "completed"
        /\ registry[t]["progress"] = 100
        /\ Status(CeleryId(t)) = "none"

\* C12: the callback is attempted at most once per task, only for a task
\* submitted with a callback_url, only after the record was marked completed
\* and the metadata key stored, and never for a task that ends failed.
C12_CallbackAtMostOnce ==
    \A t \in TaskIds :
        /\ callbacks[t].attempted <= 1
        /\ callbacks[t].attempted > 0
           => /\ callback_url[t]
              /\ metadata_store[t] # NoMeta
              /\ "completed_at" \in DOMAIN registry[t]
              /\ Status(t) # "failed"

\* C13: a record has the completed_at field exactly when its status is
\* completed.
C13_CompletedAtIffCompleted ==
    \A k \in Keys :
        task_exists(registry, k)
        => ("completed_at" \in DOMAIN registry[k] <=> Status(k) = "completed")

\* C14: a record has an error or error_code field only when its status is
\* failed.
C14_ErrorOnlyWhenFailed ==
    \A k \in Keys :
        ("error" \in DOMAIN registry[k] \/ "error_code" \in DOMAIN registry[k])
        => Status(k) = "failed"

\* C15: the key task_metadata:<id> is written once, when the record is
\* completed: no SET is issued on a key that already has a value, and the
\* key gets its value only while the record's status is completed.
C15_MetadataWrittenOnce ==
    [][\A w \in Workers :
          (pc[w] = "store_metadata" /\ pc'[w] # "store_metadata")
          => /\ metadata_store[task[w]] = NoMeta
             /\ Status(task[w]) = "completed"]_vars

\* The status steps of a record, as <<before, after>>.
StatusStep(t) == <<Status(t), StatusOf(registry'[t])>>

\* The task was uploaded without a callback_url and its message is delivered once.
PlainUpload(t) ==
    /\ "original_filename" \in DOMAIN registry'[t]
    /\ ~callback_url'[t]
    /\ redelivered'[t] = 0

\* C16 as claimed: a task uploaded without callback_url starts as pending and
\* moves pending -> processing -> completed, and the archive is then served.
C16_PendingProcessingCompleted ==
    [][\A t \in TaskIds :
          PlainUpload(t)
          => /\ StatusStep(t)[1] # StatusStep(t)[2]
                => StatusStep(t) \in {<<"none", "pending">>,
                                      <<"pending", "processing">>,
                                      <<"processing", "completed">>,
                                      <<"pending", "failed">>}
             /\ StatusOf(registry'[t]) = "completed"
                => download_results(registry', archive', t).code = 200]_vars

\* C16 as amended: a task uploaded without callback_url starts as queued; the
\* only status steps of its record are queued -> processing (admitted),
\* processing -> completed (analysis and packaging succeeded) and
\* queued -> failed (admission denied); once completed, the download endpoint
\* serves the archive.
C16_QueuedProcessingCompleted ==
    [][\A t \in TaskIds :
          PlainUpload(t)
          => /\ StatusStep(t)[1] # StatusStep(t)[2]
                => StatusStep(t) \in {<<"none", "queued">>,
                                      <<"queued", "processing">>,
                                      <<"processing", "completed">>,
                                      <<"queued", "failed">>}
             /\ StatusOf(registry'[t]) = "completed"
                => download_results(registry', archive', t).code = 200]_vars

\* An upload without callback_url has run through to completed and its
\* archive is served.
C16_Witness ==
    \E t \in TaskIds :
        /\ Uploaded(t)
        /\ ~callback_url[t]
        /\ redelivered[t] = 0
        /\ queue[t] = 0
        /\ Running(t) = {}
        /\ Status(t) = "completed"
        /\ download_results(registry, archive, t) = Ok("archive", <<>>)

\* C17: the invocation that rejects a task with QUEUE_FULL returns at once:
\* it writes failed/QUEUE_FULL and nothing else (no archive, no metadata, no
\* callback), and the record of a task delivered once never changes again.
C17_RejectionEndsInvocation ==
    [][/\ \A w \in Workers :
            (pc[w] = "reject" /\ pc'[w] # "reject")
            => /\ pc'[w] = "idle"
               /\ HasQueueFull(registry'[task[w]])
               /\ archive' = archive
               /\ metadata_store' = metadata_store
               /\ callbacks' = callbacks
       /\ \A t \in TaskIds :
            (HasQueueFull(registry[t]) /\ redelivered'[t] = 0 /\ Running(t) = {})
            => /\ registry'[t] = registry[t]
               /\ Running(t)' = {}
               /\ t \notin archive'
               /\ metadata_store'[t] = NoMeta
               /\ callbacks'[t].attempted = 0]_vars

\* A task uploaded with a callback_url was rejected with QUEUE_FULL; its
\* invocation is over and nothing was produced or sent.
C17_Witness ==
    \E t \in TaskIds :
        /\ HasQueueFull(registry[t])
        /\ callback_url[t]
        /\ redelivered[t] = 0
        /\ queue[t] = 0
        /\ Running(t) = {}
        /\ t \notin archive
        /\ metadata_store[t] = NoMeta
        /\ callbacks[t].attempted = 0

\* C18: create_task on an id whose record exists fails and leaves the
\* record's fields unchanged.
C18_CreateExistingRejected ==
    [][\A w \in Workers :
          (pc[w] = "create" /\ pc'[w] # "create" /\ task_exists(registry, task[w]))
          => registry'[task[w]] = registry[task[w]]]_vars

\* The two Redis keyspaces as delete_task sees them.
Db == [registry |-> registry, metadata_store |-> metadata_store]

NoKeysOf(db, k) ==
    /\ ~task_exists(db.registry, k)
    /\ k \in TaskIds => db.metadata_store[k] = NoMeta

\* C19: delete_task(id) removes the record and the metadata key of id and
\* leaves the keys of every other task as they were; on an id without keys
\* it changes nothing, and a second call yields the state of the first.  The
\* step that removes a record changes no other record, metadata key or file.
C19_DeleteTaskIdempotent ==
    /\ [](\A k \in Keys :
            LET once == delete_task(Db, k)
                twice == delete_task(once, k) IN
            /\ NoKeysOf(once, k)
            /\ \A j \in Keys \ {k} : once.registry[j] = registry[j]
            /\ \A j \in TaskIds \ {k} : once.metadata_store[j] = metadata_store[j]
            /\ twice = once
            /\ NoKeysOf(Db, k) => once = Db)
    /\ [][\A k \in Keys :
            (task_exists(registry, k) /\ ~task_exists(registry', k))
            => /\ k \in TaskIds => metadata_store'[k] = NoMeta
               /\ \A j \in Keys \ {k} : registry'[j] = registry[j]
               /\ \A j \in TaskIds \ {k} : metadata_store'[j] = metadata_store[j]
               /\ archive' = archive]_vars

\* The record and the metadata key of a task that had completed are gone,
\* while another completed task still has both.
C19_Witness ==
    \E t, u \in TaskIds :
        /\ t # u
        /\ t \in archive
        /\ Running(t) = {}
        /\ NoKeysOf(Db, t)
        /\ Status(u) = "completed"
        /\ metadata_store[u] # NoMeta

\* C20: the status endpoint includes the download locator exactly when the
\* record's status is completed; the download and metadata endpoints return
\* their content only when the status is completed, answer not-ready (400)
\* for a record in any other state, and not-found (404) for an unknown id or
\* a missing file.
C20_ResultsOnlyWhenCompleted ==
    [][response' # response
       => LET r == response'.result
              k == response'.task_id
              completed == Status(k) = "completed"
          IN /\ response'.endpoint = "status"
                => /\ r.download_url # <<>> <=> completed
                   /\ ~task_exists(registry, k) => r.code = 404
             /\ response'.endpoint \in {"download", "metadata"}
                => /\ r.code = 200 => completed
                   /\ ~task_exists(registry, k) => r.code = 404
                   /\ (task_exists(registry, k) /\ ~completed) => r.code = 400
                   /\ (completed /\ k \notin archive) => r.code = 404
                   /\ (completed /\ k \in archive) => r.code = 200]_vars

\* The response records the rejection of a submission.
UploadRejected(resp) == resp.endpoint = "upload" /\ resp.result.code = 400

\* Submissions that must be rejected: a name whose extension is not one of
\* the supported formats, or a size over the ceiling of 500 MB.
MustReject ==
    {f \in UploadFiles :
        \/ f.filename \in { <<"a", ".", "t", "x", "t">>, <<"w", "a", "v">> }
        \/ f.size > 524288000}

\* C21: a submission with an unsupported extension or over the size ceiling
\* is rejected by the handler itself, and the rejection inserts no record,
\* saves no upload, issues no task id and enqueues no executor invocation.
C21_RejectedSubmissionCreatesNothing ==
    /\ [](\A f \in MustReject : validate_upload(f).code = 400)
    /\ [][(UploadRejected(response') /\ response' # response)
          => /\ registry' = registry
             /\ uploads' = uploads
             /\ queue' = queue
             /\ next_id' = next_id]_vars

\* An oversized file with a supported extension was rejected after one
\* accepted upload: still one record, one upload and one message.
C21_Witness ==
    /\ UploadRejected(response)
    /\ response.file = [filename |-> <<"a", ".", "w", "a", "v">>, size |-> 524288001]
    /\ response.result.detail = "File too large"
    /\ next_id = 1
    /\ uploads = {1}
    /\ queue[1] = 1
    /\ \A k \in Keys \ {1} : ~task_exists(registry, k)

\* The response records a run of the retention sweep.
Swept(resp) == resp.endpoint = "cleanup_old_tasks"

\* C22: the retention sweep completes without raising, deletes every
\* processed directory older than the cutoff and keeps every younger one.
C22_SweepDeletesExpired ==
    [][(Swept(response') /\ response' # response)
       => /\ response'.result.code = 200
          /\ archive' = archive \ expired]_vars

\* The two directory sets as cleanup_task sees them.
Fs == [uploads |-> uploads, processed |-> archive]

NoDirsOf(fs, t) == t \notin fs.uploads /\ t \notin fs.processed

\* C23: after cleanup_task(id) neither directory of id exists and the
\* directories of every other task are as before; on an id without
\* directories it changes nothing, and a second call yields the state of the
\* first (no step of it can raise: each rmtree is guarded by exists()).
C23_CleanupTaskIdempotent ==
    /\ [](\A t \in TaskIds :
            LET once == cleanup_task(Fs, t)
                twice == cleanup_task(once, t) IN
            /\ NoDirsOf(once, t)
            /\ once.uploads \ {t} = uploads \ {t}
            /\ once.processed \ {t} = archive \ {t}
            /\ twice = once
            /\ NoDirsOf(Fs, t) => once = Fs)
    /\ [][\A t \in TaskIds :
            (~NoDirsOf(Fs, t) /\ t \notin uploads' /\ t \notin archive')
            => /\ uploads' \ {t} = uploads \ {t}
               /\ archive' \ {t} = archive \ {t}
               /\ registry' = registry
               /\ metadata_store' = metadata_store]_vars

\* The directories of a completed task are gone while another task still
\* has its upload directory.
C23_Witness ==
    \E t, u \in TaskIds :
        /\ t # u
        /\ Status(t) = "completed"
        /\ NoDirsOf(Fs, t)
        /\ u \in uploads

\* What extraction must yield for the arguments of the call: the metadata
\* document, and every listed file under its speaker's directory.
Expected ==
    [metadata |-> packaging.metadata,
     segments |-> {[speaker |-> f.speaker, name |-> f.name, bytes |-> f.bytes]
                   : f \in FilesOf(packaging.speaker_segments)}]

\* Every listed file is where process_audio saves it.
Conventional == \A f \in FilesOf(packaging.speaker_segments) : f.dir = "processed"

ClearRemoves(k) == clear' # clear /\ registry[k] # <<>> /\ registry'[k] = <<>>

\* C25: clear_tasks never deletes a record in a dry run or when the prompt is
\* declined; when confirmed without --include-completed, every record it
\* deletes has status pending or processing, and records of any other status
\* (queued, completed, failed) are left untouched.
C25_ClearsOnlyPendingProcessing ==
    [][/\ clear.phase \in {"dry_run", "aborted", "nothing"} => clear' = clear
       /\ \A k \in Keys :
            (ClearRemoves(k) /\ ~clear.include_completed)
            => Status(k) \in statuses_to_clear]_vars

\* clear_tasks without --include-completed was confirmed and removes a record
\* whose status is completed by now.
C25_Witness ==
    /\ clear.phase = "deleting"
    /\ ~clear.include_completed
    /\ \E k \in clear.cleared : Status(k) = "completed"

\* C26: on entry the executor creates a record with status pending, progress
\* 0 and fresh timestamps exactly when no record exists for the task id;
\* when a record exists, the existence test and the creation leave every
\* field of it unchanged.
C26_CreatesIffAbsent ==
    [][\A w \in Workers :
          LET t == task[w] IN
          /\ (pc[w] = "exists" /\ pc'[w] # "exists")
             => /\ registry'[t] = registry[t]
                /\ pc'[w] = "create" <=> ~task_exists(registry, t)
          /\ (pc[w] = "create" /\ pc'[w] # "create")
             => IF task_exists(registry, t)
                THEN registry'[t] = registry[t]
                ELSE /\ registry'[t].status = "pending"
                     /\ registry'[t].progress = 0
                     /\ registry'[t].created_at = Now
                     /\ registry'[t].updated_at = Now]_vars

\* The positions of one invocation from the start of processing on, in the
\* order of the statements of process_audio_task.
Stage == <<"start", "loading", "analysis", "packaging", "zip", "completed",
           "store_metadata", "callback">>

Rank(p) == IF \E i \in 1..Len(Stage) : Stage[i] = p
           THEN CHOOSE i \in 1..Len(Stage) : Stage[i] = p
           ELSE 0

\* The step writes a progress callback of the analysis into the record of t.
CallbackWrite(t) ==
    /\ "progress" \in DOMAIN registry[t] \cap DOMAIN registry'[t]
    /\ \/ registry'[t].progress # registry[t].progress
       \/ registry'[t].message # registry[t].message
    /\ \E i \in 1..Len(Checkpoints) :
          /\ registry'[t].progress = Checkpoints[i].progress
          /\ registry'[t].message = Checkpoints[i].message

\* C27: within one invocation the executor never goes back to an earlier
\* statement; it writes status processing with progress 10 when it starts,
\* before the analysis and its progress callbacks, which all happen in the
\* analysis stage; the archive is created after that stage, in the packaging,
\* and status completed is written only after the archive was created.
C27_StepsOrdered ==
    [][\A w \in Workers :
          LET t == task[w] IN
          (t \in TaskIds /\ (pc'[w] # pc[w] \/ cp'[w] # cp[w]))
          => /\ (Rank(pc[w]) > 0 /\ Rank(pc'[w]) > 0) => Rank(pc'[w]) >= Rank(pc[w])
             /\ Rank(pc'[w]) > 1 => Rank(pc[w]) > 0
             /\ pc[w] = "start"
                => /\ registry'[t].status = "processing"
                   /\ registry'[t].progress = 10
                   /\ pc'[w] = "loading"
             /\ CallbackWrite(t) => (pc[w] = "analysis" /\ Rank(pc'[w]) < Rank("zip"))
             /\ archive' # archive
                => (pc[w] = "zip" /\ cp[w] = 0 /\ pc'[w] = "completed")
             /\ (StatusOf(registry[t]) # "completed"
                 /\ StatusOf(registry'[t]) = "completed")
                => (pc[w] = "completed" /\ t \in archive)]_vars

\* An invocation has gone through all its steps: it reported the last
\* progress of the analysis, created the archive and has just marked the
\* task completed.
C27_Witness ==
    \E w \in Workers :
        /\ pc[w] = "store_metadata"
        /\ task[w] \in archive
        /\ Status(task[w]) = "completed"
        /\ registry[task[w]].progress = 100
        /\ metadata_store[task[w]] = NoMeta

\* The registry with the timestamps of k's record set to an earlier time, so
\* that an update made now shows.
Earlier(reg, k) ==
    [reg EXCEPT ![k] = [f \in DOMAIN @ |->
                          IF f \in {"created_at", "updated_at"} THEN "earlier" ELSE @[f]]]

\* Hashes before and after agree on the fields of F: same presence, same value.
SameOn(before, after, F) ==
    \A f \in F : /\ f \in DOMAIN before <=> f \in DOMAIN after
                 /\ f \in DOMAIN before => after[f] = before[f]

\* An update of k that wrote updated_at now, touched no field outside named
\* and no other key.
MergedOnly(reg, out, k, named) ==
    /\ out[k].updated_at = Now
    /\ DOMAIN out[k] \subseteq DOMAIN reg[k] \cup named
    /\ SameOn(reg[k], out[k], (DOMAIN reg[k] \cup DOMAIN out[k]) \ named)
    /\ \A j \in Keys \ {k} : out[j] = reg[j]

Identity == {"task_id", "created_at", "original_filename", "callback_url"}

\* C28: on every record the program can hold, every update refreshes
\* updated_at and merges only the fields it names: set_task_progress changes
\* only progress, message and updated_at and never writes status (message is
\* kept when none is given); update_task_status, set_task_error and
\* set_task_completed leave task_id, created_at, original_filename and
\* callback_url unchanged.
C28_UpdatesMergeNamedFields ==
    \A k \in Keys :
      LET reg == Earlier(registry, k) IN
      /\ \A progress \in {0, 50}, message \in {"", "m"} :
            LET out == set_task_progress(reg, k, progress, message) IN
            /\ MergedOnly(reg, out, k, {"progress", "message", "updated_at"})
            /\ out[k].progress = progress
            /\ message = "" => SameOn(reg[k], out[k], {"message"})
            /\ SameOn(reg[k], out[k], {"status"})
      /\ \A status \in {"queued", "processing"}, progress \in {<<>>, <<10>>},
            message \in {"", "m"} :
            LET out == update_task_status(reg, k, status, progress, message) IN
            /\ MergedOnly(reg, out, k, {"status", "progress", "message", "updated_at"})
            /\ out[k].status = status
            /\ SameOn(reg[k], out[k], Identity)
      /\ \A error_code \in {"", "QUEUE_FULL"} :
            LET out == set_task_error(reg, k, "error", error_code) IN
            /\ MergedOnly(reg, out, k, {"status", "error", "error_code", "updated_at"})
            /\ out[k].status = "failed"
            /\ SameOn(reg[k], out[k], Identity)
      /\ LET out == set_task_completed(reg, k) IN
            /\ MergedOnly(reg, out, k, {"status", "progress", "message",
                                        "completed_at", "updated_at"})
            /\ out[k].status = "completed"
            /\ SameOn(reg[k], out[k], Identity)

\* An uploaded task with a callback URL is being processed at progress 50:
\* its record carries a status, the identity fields and a progress to update.
C28_Witness ==
    \E t \in TaskIds :
        /\ Status(t) = "processing"
        /\ registry[t].progress = 50
        /\ registry[t].callback_url = "url"
        /\ registry[t].original_filename = "audio.wav"
        /\ \E w \in Workers : task[w] = t /\ pc[w] = "analysis"

\* C29: for every positive configured task_timeout_minutes, the soft time
\* limit handed to the queue is positive and strictly smaller than the hard
\* time limit.
C29_SoftLimitPositiveBelowHard ==
    (conf.task_time_limit # <<>> /\ conf.task_timeout_minutes > 0)
    => /\ conf.task_soft_time_limit[1] > 0
       /\ conf.task_soft_time_limit[1] < conf.task_time_limit[1]

\* The record of t says completed but its results cannot be served: the
\* processed directory with the archive and metadata.json is missing, or an
\* endpoint answers not-found.
ResultsMissing(reg, arch, t) ==
    /\ StatusOf(reg[t]) = "completed"
    /\ \/ t \notin arch
       \/ download_results(reg, arch, t).code = 404
       \/ get_metadata(reg, arch, t).code = 404

\* C30: whenever the record of a task says completed and no clean-up has run
\* for it (every task here is uploaded and only cleanup_task removes an
\* upload, so its upload is still there; the retention sweep may have run),
\* the archive and the metadata document exist and the download and metadata
\* endpoints do not answer not-found.
C30_CompletedHasResults ==
    \A t \in TaskIds :
        (Status(t) = "completed" /\ t \in uploads)
        => ~ResultsMissing(registry, archive, t)

\* A task is completed, no clean-up has touched its upload or its processed
\* directory, and both endpoints serve its results.
C30_Witness ==
    \E t \in TaskIds :
        /\ Status(t) = "completed"
        /\ t \in archive /\ t \in uploads
        /\ download_results(registry, archive, t).code = 200
        /\ get_metadata(registry, archive, t) = Ok("metadata", <<>>)

\* C31: when executors run serially (no other executor takes a step between
\* an executor's admission check and its write of status processing), the
\* number of records with status processing is at most max_concurrent_tasks
\* in every reachable state, and no executor finds the second check denied.
C31_SerialKeepsCeiling ==
    /\ Cardinality(Processing) <= max_concurrent_tasks
    /\ \A w \in Workers : pc[w] \notin {"set_queued", "poll"}

\* Serial executors have filled the ceiling with two tasks in analysis, and
\* a third task was refused with QUEUE_FULL.
C31_Witness ==
    /\ max_concurrent_tasks = 2
    /\ Cardinality(Processing) = 2
    /\ pc[1] = "analysis" /\ pc[2] = "analysis"
    /\ task[1] # task[2]
    /\ \E t \in TaskIds : HasQueueFull(registry[t])

\* No invocation is waiting in the queue or running on a worker.
Quiescent ==
    /\ \A t \in TaskIds : queue[t] = 0
    /\ \A w \in Workers : pc[w] = "idle"

\* C32: admission slots are released when executors finish: whenever no
\* invocation is running or waiting in the queue, get_active_task_count() is
\* 0 and can_start_new_task() is true, also after an analysis that raised.
C32_SlotsReleased ==
    Quiescent => /\ get_active_task_count(registry) = 0
                 /\ can_start_new_task(registry)

\* The record under key k has the fields every reader relies on, and k is
\* the id of a submitted task.
WellFormed(reg, k) ==
    /\ {"task_id", "status", "created_at"} \subseteq DOMAIN reg[k]
    /\ reg[k].task_id = k
    /\ k \in 1..next_id

\* C33: every key task:<id> present in the registry holds a record with at
\* least task_id (equal to <id>), status and created_at, and <id> is the id
\* of a submitted task, after any interleaving of executor steps, the failure
\* handler, progress updates and delete_task.
C33_RecordsWellFormed ==
    \A k \in Keys : task_exists(registry, k) => WellFormed(registry, k)

\* The executor on w is at its first admission check for a task whose record
\* it has just created itself, with no other record active and a ceiling of 1.
AloneAfterDefensiveCreate(w) ==
    /\ pc[w] = "check1"
    /\ max_concurrent_tasks = 1
    /\ registry[task[w]] = Defaults(task[w])
    /\ OthersIn(task[w], ActiveStatuses) = 0

\* C34: the admission check does not count the executor's own task: an
\* executor invoked for a task without a record (defensive create), with no
\* other task active and max_concurrent_tasks = 1, passes the check and is
\* not rejected with QUEUE_FULL.
C34_OwnTaskNotCounted ==
    [][\A w \in Workers :
          (AloneAfterDefensiveCreate(w) /\ pc'[w] # pc[w])
          => /\ pc'[w] = "check2"
             /\ ~HasQueueFull(registry'[task[w]])]_vars

\* The step is a run of the retention sweep.
SweepStep == Swept(response') /\ response' # response

\* The step removes a directory (only the file cleanup does).
RemovesDirectory == uploads' \ uploads = {} /\ archive' \ archive = {}
                    /\ (uploads' # uploads \/ archive' # archive)

\* C35: file cleanup never touches the registry: cleanup_task and the
\* retention sweep leave every record and metadata key unchanged; after the
\* sweep, an expired completed task has lost its directory, its record still
\* reads completed and the download endpoint answers not-found.
C35_CleanupLeavesRegistry ==
    [][/\ (SweepStep \/ RemovesDirectory)
          => (registry' = registry /\ metadata_store' = metadata_store)
       /\ SweepStep
          => \A t \in expired :
                Status(t) = "completed"
                => /\ t \notin archive'
                   /\ StatusOf(registry'[t]) = "completed"
                   /\ download_results(registry', archive', t).code = 404]_vars
====
